---- MODULE Spec2Model ----
(***************************************************************************)
(* cryptfile: password-based file and directory encryption.                *)
(*                                                                         *)
(* The model follows src/cryptfile.py: process() runs the four modes in    *)
(* turn (encrypt files, decrypt files, encrypt directories, decrypt        *)
(* directories); every loop iteration of the Cryptfile methods is one      *)
(* step.  An uncaught Python exception ends the run (status "crash"),      *)
(* sys.exit(1) ends it with status "exit1".                                *)
(*                                                                         *)
(* Paths are sequences of tokens: <<"docs", ".tar", ".enc">> is            *)
(* "docs.tar.enc", <<"p/", "docs">> is "p/docs".  The library primitives   *)
(* (SHA-256, scrypt, AES-GCM, the random generator, pickle) are modelled   *)
(* as ideal symbolic functions: a hash, a derived key, a ciphertext and a  *)
(* tag are terms built from their inputs, and the random generator never   *)
(* returns the same value twice.                                           *)
(***************************************************************************)
EXTENDS Integers, Sequences, FiniteSets, TLC

VARIABLES
    fs,                 \* the files on disk: path -> content
    dirs,               \* the directories on disk: path -> tree
    args,               \* the parsed command line
    mode,               \* the block of process() being run: 1..4, 5 past the last
    pc,                 \* the position inside the block
    status,             \* "running", "done", "exit1" (sys.exit(1)), "crash"
    err,                \* the uncaught exception that ended the run
    files,              \* self.files / self.directories of the Cryptfile object
    todo,               \* the elements the running loop has not visited yet
    password_hash,      \* the local of encrypt_file / decrypt_file
    archives_location,  \* the local of encrypt_dir / decrypt_dir
    ri,                 \* the index of process()'s remove loop in its list
    rng,                \* the number of values drawn from the random generator
    \* history variables, read by the properties only
    fsMode,             \* fs when the running block started
    dirsMode,           \* dirs when the running block started
    prompts,            \* the getpass() calls of the running block
    okFiles,            \* the files whose loop body completed in the running block
    encLog,             \* one record for every Security.encrypt call of the run
    lastDec,            \* the last Security.decrypt call of the run
    removed             \* the originals process() deleted in the running block

vars == <<fs, dirs, args, mode, pc, status, err, files, todo, password_hash,
          archives_location, ri, rng, fsMode, dirsMode, prompts, okFiles,
          encLog, lastDec, removed>>

(***************************************************************************)
(* Bounds of the model.                                                    *)
(***************************************************************************)
\* the most paths one command line names, over all four options
MaxArgs == 2

(***************************************************************************)
(* Paths.                                                                  *)
(***************************************************************************)
NoFile == <<>>

\* file + ".enc", file + ".cryptfile"
Suffixed(file, ext) == Append(file, ext)

\* file.endswith(".enc")
EndsWith(file, ext) == Len(file) > 0 /\ file[Len(file)] = ext

\* s.split(tok)[0]: what precedes the first occurrence of tok
SplitFirst(s, tok) ==
    LET at == {i \in 1..Len(s) : s[i] = tok}
    IN  IF at = {} THEN s
        ELSE SubSeq(s, 1, (CHOOSE i \in at : \A j \in at : i <= j) - 1)

\* "tar" in archive_file: of the tokens of the model only ".tar" holds "tar"
ContainsTar(s) == \E i \in 1..Len(s) : s[i] = ".tar"

\* os.path.basename(directory): what follows the last "x/" token
Basename(directory) ==
    LET at == {i \in 1..Len(directory) : directory[i] \in {"p/", "q/"}}
    IN  IF at = {} THEN directory
        ELSE SubSeq(directory,
                    (CHOOSE i \in at : \A j \in at : i >= j) + 1,
                    Len(directory))

\* Utils._rename
Utils_rename(file) ==
    IF EndsWith(file, ".enc")
    THEN SubSeq(file, 1, Len(file) - 1)
    ELSE Suffixed(file, ".cryptfile")

(***************************************************************************)
(* File contents.                                                          *)
(***************************************************************************)
Bytes(v) == [kind |-> "bytes", v |-> v]

\* what make_archive writes for a directory tree
Archive(fmt, tree) == [kind |-> "archive", fmt |-> fmt, tree |-> tree]

\* pickle.dump(obj, f, -1)
Pickle(obj) == [kind |-> "pickle", obj |-> obj]

\* a pickle stream with trailing bytes missing
Truncated == [kind |-> "truncated"]

\* one or more bits of a value flipped
Flip(x) == [kind |-> "flip", of |-> x]

\* the fields of Template.CipherConfig; filename has a default
RequiredFields == {"ciphertext", "salt", "tag", "nonce"}

AllFields == RequiredFields \cup {"filename"}

\* Template.CipherConfig(ciphertext, salt, tag, nonce), filename = ""
CipherConfig(ciphertext, salt, tag, nonce) ==
    [ciphertext |-> ciphertext, salt |-> salt, tag |-> tag, nonce |-> nonce,
     filename |-> NoFile]

\* Template.CipherConfig(**data_dict) raises TypeError unless this holds
DictFitsCipherConfig(d) ==
    RequiredFields \subseteq DOMAIN d /\ DOMAIN d \subseteq AllFields

\* Template.CipherConfig(**data_dict)
CipherConfigFromDict(d) ==
    [ciphertext |-> d.ciphertext, salt |-> d.salt, tag |-> d.tag,
     nonce |-> d.nonce,
     filename |-> IF "filename" \in DOMAIN d THEN d.filename ELSE NoFile]

\* Utils.attrs: astuple(cc), in the order the fields are declared
Utils_attrs_swapped(cc) ==
    <<cc.ciphertext, cc.tag, cc.salt, cc.nonce, cc.filename>>

Utils_attrs(cc) ==
    <<cc.ciphertext, cc.salt, cc.tag, cc.nonce, cc.filename>>

(***************************************************************************)
(* Security: the cryptographic functions.                                  *)
(***************************************************************************)
cost_factor == 1048576

rounds == 8

parallel_factor == 1

key_length == 32

\* SHA256Hash(pw.encode("utf-8")).hexdigest().encode("utf-8")
SHA256Hex(pw) == [kind |-> "sha256hex", of |-> pw]

\* str(b) of a bytes object: its repr "b'...'", not the bytes themselves
Str(b) == [kind |-> "str", of |-> b]

\* Cryptodome.Protocol.KDF.scrypt
scrypt(password, salt, klen, N, r, p) ==
    [kind |-> "scrypt", password |-> password, salt |-> salt, klen |-> klen,
     N |-> N, r |-> r, p |-> p]

\* Cryptodome.Random.get_random_bytes: the n-th value drawn
get_random_bytes(n) == [kind |-> "rand", n |-> n]

\* Security._kdf_scrypt
Security_kdf_scrypt(mp, _salt) ==
    scrypt(Str(mp), Str(_salt), key_length, cost_factor, rounds,
           parallel_factor)

\* the tag AES-GCM computes over a ciphertext under (key, nonce)
GcmTag(key, nonce, ciphertext) ==
    [kind |-> "gcm_tag", key |-> key, nonce |-> nonce, ct |-> ciphertext]

\* AES.new(key, AES.MODE_GCM) with a nonce of its own; encrypt_and_digest
AES_encrypt_and_digest(key, nonce, data) ==
    LET ciphertext == [kind |-> "gcm_ct", key |-> key, nonce |-> nonce,
                       pt |-> data]
    IN  [ciphertext |-> ciphertext, tag |-> GcmTag(key, nonce, ciphertext)]

\* what the GCM keystream of (key, nonce) turns a ciphertext into
GcmPlain(key, nonce, ciphertext) ==
    IF ciphertext.kind = "gcm_ct" /\ ciphertext.key = key
       /\ ciphertext.nonce = nonce
    THEN ciphertext.pt
    ELSE [kind |-> "garbage", of |-> ciphertext]

\* decrypt_and_verify without the MAC check
AES_decrypt_no_verify(key, nonce, ciphertext, tag) ==
    [ok |-> TRUE, data |-> GcmPlain(key, nonce, ciphertext)]

\* AES.new(key, AES.MODE_GCM, nonce).decrypt_and_verify(ciphertext, tag):
\* ValueError("MAC check failed") unless the tag verifies
AES_decrypt_and_verify(key, nonce, ciphertext, tag) ==
    IF tag = GcmTag(key, nonce, ciphertext)
    THEN [ok |-> TRUE, data |-> GcmPlain(key, nonce, ciphertext)]
    ELSE [ok |-> FALSE, data |-> Bytes(0)]

\* Security.encrypt with a salt that does not come from the generator
Security_encrypt_fixed_salt(mp, data, n) ==
    LET _salt == get_random_bytes(0)
        key == Security_kdf_scrypt(mp, _salt)
        nonce == get_random_bytes(n + 1)
        ed == AES_encrypt_and_digest(key, nonce, data)
    IN  CipherConfig(ed.ciphertext, _salt, ed.tag, nonce)

\* Security(mp).encrypt(data), n values having been drawn before the call
Security_encrypt(mp, data, n) ==
    LET _salt == get_random_bytes(n)
        key == Security_kdf_scrypt(mp, _salt)
        nonce == get_random_bytes(n + 1)
        ed == AES_encrypt_and_digest(key, nonce, data)
    IN  CipherConfig(ed.ciphertext, _salt, ed.tag, nonce)

\* Security(mp).decrypt(cc)
Security_decrypt(mp, cc) ==
    LET t == Utils_attrs(cc)
        ciphertext == t[1]
        _salt == t[2]
        tag == t[3]
        nonce == t[4]
        key == Security_kdf_scrypt(mp, _salt)
    IN  AES_decrypt_and_verify(key, nonce, ciphertext, tag)

(***************************************************************************)
(* obsfile/security.py: the same scheme as two functions, the salt kept    *)
(* as the string it was derived with.                                      *)
(***************************************************************************)
obs_scrypt_N == 16384

\* obsfile.security.encrypt(data, key)
obs_encrypt(data, key, n) ==
    LET random_bytes == Str(get_random_bytes(n))
        private_key == scrypt(key, random_bytes, 32, obs_scrypt_N, 8, 1)
        nonce == get_random_bytes(n + 1)
        ed == AES_encrypt_and_digest(private_key, nonce, data)
    IN  [salt |-> random_bytes, ciphertext |-> ed.ciphertext,
         nonce |-> nonce, tag |-> ed.tag]

\* obsfile.security.decrypt(configs, key): the value drawn first is replaced
\* by the stored salt before it is used
obs_decrypt(configs, key, n) ==
    LET random_bytes0 == Str(get_random_bytes(n))
        random_bytes == configs.salt
        private_key == scrypt(key, random_bytes, 32, obs_scrypt_N, 8, 1)
    IN  AES_decrypt_and_verify(private_key, configs.nonce,
                               configs.ciphertext, configs.tag)

(***************************************************************************)
(* Utils: files, pickled containers, archives.                             *)
(***************************************************************************)
Range(s) == {s[i] : i \in 1..Len(s)}

\* open(name, "wb") and the write that follows: the file holds content
WriteFile(fsv, name, content) == (name :> content) @@ fsv

\* os.remove(name)
RemoveFile(fsv, name) == [n \in DOMAIN fsv \ {name} |-> fsv[n]]

\* Utils.open_file: the exceptions it can raise (none: it returns val)
Utils_open_file(fsv, file, pickled) ==
    IF file \notin DOMAIN fsv
    THEN [exc |-> {"FileNotFoundError"}, val |-> Bytes(0)]
    ELSE IF ~pickled
    THEN [exc |-> {}, val |-> fsv[file]]
    ELSE IF fsv[file].kind = "truncated"
    THEN [exc |-> {"EOFError", "UnpicklingError"}, val |-> Bytes(0)]
    ELSE IF fsv[file].kind # "pickle"
    THEN [exc |-> {"UnpicklingError"}, val |-> Bytes(0)]
    ELSE IF ~DictFitsCipherConfig(fsv[file].obj)
    THEN [exc |-> {"TypeError"}, val |-> Bytes(0)]
    ELSE [exc |-> {}, val |-> CipherConfigFromDict(fsv[file].obj)]

\* Utils.save_cc: pickle.dump(data.__dict__) into file + ".enc"
Utils_save_cc(fsv, data, file) ==
    WriteFile(fsv, Suffixed(file, ".enc"), Pickle(data))

\* Utils.save_file: open(filename, "wb") fails on the empty name
Utils_save_file(fsv, data, filename) ==
    IF filename = NoFile
    THEN [exc |-> {"FileNotFoundError"}, fs |-> fsv]
    ELSE [exc |-> {}, fs |-> WriteFile(fsv, filename, data)]

\* Utils.archive_dir: make_archive(basename(directory), fmt, directory)
Utils_archive_dir(dirsv, directory, compress) ==
    LET archive_filename == Basename(directory)
        fmt == IF compress THEN "zip" ELSE "tar"
        output_path == Suffixed(archive_filename,
                                IF compress THEN ".zip" ELSE ".tar")
    IN  IF directory \notin DOMAIN dirsv
        THEN [exc |-> {"FileNotFoundError"}, path |-> NoFile,
              content |-> Bytes(0)]
        ELSE [exc |-> {}, path |-> output_path,
              content |-> Archive(fmt, dirsv[directory])]

\* shutil.unpack_archive picks the format by the extension of the name
UnpackFormat(archive_file) ==
    IF EndsWith(archive_file, ".tar") THEN "tar"
    ELSE IF EndsWith(archive_file, ".zip") THEN "zip"
    ELSE "unknown"

\* Utils.unarchive_dir: unpack_archive(archive_file, extract_dir=...)
Utils_unarchive_dir(fsv, archive_file) ==
    LET archive_filename ==
            IF ContainsTar(archive_file)
            THEN SplitFirst(archive_file, ".tar")
            ELSE SplitFirst(archive_file, ".zip")
        failed == [exc |-> {"ReadError"}, dir |-> archive_filename, tree |-> 0]
    IN  IF UnpackFormat(archive_file) = "unknown" THEN failed
        ELSE IF archive_file \notin DOMAIN fsv
        THEN [failed EXCEPT !.exc = {"FileNotFoundError"}]
        ELSE IF fsv[archive_file].kind # "archive" THEN failed
        ELSE IF fsv[archive_file].fmt # UnpackFormat(archive_file) THEN failed
        ELSE [exc |-> {}, dir |-> archive_filename,
              tree |-> fsv[archive_file].tree]

(***************************************************************************)
(* The command line and the disk the run starts from.                      *)
(***************************************************************************)
Passwords == {"correct", "wrong"}

ArgFiles == {<<"a">>, <<"a", ".enc">>, <<"b">>, <<"docs", ".tar", ".enc">>}

ArgDirs == {<<"p/", "docs">>, <<"q/", "docs">>, <<"p/", "pics">>}

\* an option of the command line with one of its paths:
\* 1 is -e, 2 is -d, 3 is -ed, 4 is -dd
Opts == ({1, 2, 4} \X ArgFiles) \cup ({3} \X ArgDirs)

CmdLines ==
    {cl \in UNION {[1..k -> Opts] : k \in 1..MaxArgs} :
        \A i, j \in DOMAIN cl : i < j => cl[i][1] <= cl[j][1]}

\* the nargs="+" list of option m, <<>> for None
ListOf(cl, m) ==
    LET at == {i \in DOMAIN cl : cl[i][1] = m}
        first == CHOOSE i \in at : \A j \in at : i <= j
    IN  IF at = {} THEN <<>>
        ELSE [i \in 1..Cardinality(at) |-> cl[first + i - 1][2]]

\* argparse's namespace
ArgsOf(cl, remove, compress) ==
    [encrypt |-> ListOf(cl, 1), decrypt |-> ListOf(cl, 2),
     encrypt_dir |-> ListOf(cl, 3), decrypt_dir |-> ListOf(cl, 4),
     remove |-> remove, compress |-> compress]

\* the hash the containers already on disk were made with
OldHash == SHA256Hex("correct")

\* a container an earlier run made of data, recorded under filename
Earlier(data, filename) ==
    [Security_encrypt(OldHash, data, 0) EXCEPT !.filename = filename]

DropField(d, f) == [k \in DOMAIN d \ {f} |-> d[k]]

BaseFs == <<"a">> :> Bytes(1)

BaseDirs ==
    (<<"p/", "docs">> :> 1) @@ (<<"q/", "docs">> :> 2) @@ (<<"p/", "pics">> :> 3)

\* what earlier runs and the user left on disk beside the file a
InitialDisks ==
    LET G == Earlier(Bytes(1), <<"a">>)
        aenc == <<"a", ".enc">>
        dte == <<"docs", ".tar", ".enc">>
    IN  {BaseFs,
         \* a second file with the content of a
         (<<"b">> :> Bytes(1)) @@ BaseFs,
         \* a.enc as an earlier run left it
         (aenc :> Pickle(G)) @@ BaseFs,
         \* a.enc cut short
         (aenc :> Truncated) @@ BaseFs,
         \* a.enc renamed to b
         (<<"b">> :> Pickle(G)) @@ BaseFs,
         \* docs.tar.enc as an earlier run on p/docs left it
         (dte :> Pickle(Earlier(Archive("tar", 1), <<"docs", ".tar">>)))
             @@ BaseFs,
         \* docs.tar.enc holds what is no archive
         (dte :> Pickle(Earlier(Bytes(2), <<"docs", ".tar">>))) @@ BaseFs,
         \* an artifact of pics.tar renamed to docs.tar.enc, beside an
         \* archive docs.tar of the user's
         (dte :> Pickle(Earlier(Archive("tar", 3), <<"pics", ".tar">>)))
             @@ (<<"docs", ".tar">> :> Archive("tar", 2)) @@ BaseFs}
    \cup {(aenc :> Pickle(DropField(G, f))) @@ BaseFs : f \in AllFields}
    \cup {(aenc :> Pickle([G EXCEPT ![f] = Flip(@)])) @@ BaseFs :
            f \in RequiredFields}

NoHash == [kind |-> "none"]

NoErr == [exc |-> "", file |-> NoFile]

Init ==
    /\ fs \in InitialDisks
    /\ dirs = BaseDirs
    /\ args \in {ArgsOf(cl, remove, compress) :
                    cl \in CmdLines, remove \in BOOLEAN,
                    compress \in BOOLEAN}
    /\ args.compress => args.encrypt_dir # <<>>
    /\ mode = 1
    /\ pc = "begin"
    /\ status = "running"
    /\ err = NoErr
    /\ files = {}
    /\ todo = {}
    /\ password_hash = NoHash
    /\ archives_location = {}
    /\ ri = 1
    /\ rng = 2
    /\ fsMode = fs
    /\ dirsMode = dirs
    /\ prompts = 0
    /\ okFiles = {}
    /\ encLog = <<>>
    /\ lastDec = [n |-> 0]
    /\ removed = {}

(***************************************************************************)
(* The run.                                                                *)
(***************************************************************************)
hist == <<fsMode, dirsMode, prompts, okFiles, encLog, lastDec, removed>>

\* args.encrypt, args.decrypt, args.encrypt_dir, args.decrypt_dir
ArgOf(m) ==
    CASE m = 1 -> args.encrypt
      [] m = 2 -> args.decrypt
      [] m = 3 -> args.encrypt_dir
      [] OTHER -> args.decrypt_dir

\* an uncaught exception: the traceback is printed and the run is over
Raise(exc, file) ==
    /\ status' = "crash"
    /\ err' = [exc |-> exc, file |-> file]

\* process(): the next block whose option was given starts, or process()
\* returns.  A block is left when its method has returned and -r was not
\* given, or when its remove loop has passed the end of the list.
process ==
    /\ status = "running"
    /\ \/ pc = "begin"
       \/ pc = "ret" /\ ~args.remove
       \/ pc = "remove" /\ ri > Len(ArgOf(mode))
    /\ LET from == IF pc = "begin" THEN mode ELSE mode + 1
           given == {m \in from..4 : ArgOf(m) # <<>>}
           m == CHOOSE k \in given : \A j \in given : k <= j
       IN  IF given = {}
           THEN /\ status' = "done"
                /\ mode' = 5
                /\ pc' = "begin"
                /\ UNCHANGED <<files, todo, archives_location, ri, hist>>
           ELSE /\ status' = status
                /\ mode' = m
                /\ pc' = IF m = 3 THEN "archive" ELSE "getpass"
                /\ files' = Range(ArgOf(m))
                /\ todo' = IF m = 3 THEN Range(ArgOf(m)) ELSE {}
                /\ archives_location' = {}
                /\ ri' = 1
                /\ fsMode' = fs
                /\ dirsMode' = dirs
                /\ prompts' = 0
                /\ okFiles' = {}
                /\ removed' = {}
                /\ UNCHANGED <<encLog, lastDec>>
    /\ UNCHANGED <<fs, dirs, args, err, password_hash, rng>>

\* Security.getpass, called first thing by encrypt_file (two entries, which
\* must agree) and by decrypt_file (no_check: one entry)
Security_getpass ==
    /\ status = "running"
    /\ pc = "getpass"
    /\ \E e1, e2 \in Passwords :
        LET no_check == mode \in {2, 4}
            p1 == SHA256Hex(e1)
            p2 == SHA256Hex(e2)
        IN  /\ no_check => e2 = e1
            /\ IF no_check \/ p1 = p2
               THEN /\ password_hash' = p1
                    /\ pc' = "loop"
                    /\ todo' = files
                    /\ status' = status
               ELSE /\ status' = "exit1"
                    /\ UNCHANGED <<password_hash, pc, todo>>
    /\ prompts' = prompts + 1
    /\ UNCHANGED <<fs, dirs, args, mode, err, files, archives_location, ri,
                   rng, fsMode, dirsMode, okFiles, encLog, lastDec, removed>>

\* the salts of the containers on disk
SaltsOnDisk ==
    {fs[f].obj.salt :
        f \in {g \in DOMAIN fs : fs[g].kind = "pickle"
                                 /\ "salt" \in DOMAIN fs[g].obj}}

\* Cryptfile.encrypt_file: one iteration of the loop over self.files
Cryptfile_encrypt_file ==
    /\ status = "running"
    /\ pc = "loop"
    /\ mode \in {1, 3}
    /\ \E file \in todo :
        LET opened == Utils_open_file(fs, file, FALSE)
            data == opened.val
            cc == [Security_encrypt(password_hash, data, rng)
                       EXCEPT !.filename = file]
            rest == todo \ {file}
        IN  IF opened.exc # {}
            THEN /\ \E exc \in opened.exc : Raise(exc, file)
                 /\ UNCHANGED <<fs, pc, todo, rng, okFiles, encLog>>
            ELSE /\ fs' = Utils_save_cc(fs, cc, file)
                 /\ rng' = rng + 2
                 /\ okFiles' = okFiles \cup {file}
                 /\ encLog' = Append(encLog,
                        [file |-> file, cc |-> cc, pt |-> data,
                         mp |-> password_hash, mode |-> mode,
                         fresh |-> cc.salt \notin SaltsOnDisk])
                 /\ pc' = IF rest # {} THEN "loop"
                          ELSE IF mode = 1 THEN "ret" ELSE "rm_archives"
                 /\ todo' = IF rest = {} /\ mode = 3
                            THEN archives_location ELSE rest
                 /\ UNCHANGED <<status, err>>
    /\ UNCHANGED <<dirs, args, mode, files, password_hash, archives_location,
                   ri, fsMode, dirsMode, prompts, lastDec, removed>>

\* Cryptfile.decrypt_file: one iteration of the loop over self.files
Cryptfile_decrypt_file ==
    /\ status = "running"
    /\ pc = "loop"
    /\ mode \in {2, 4}
    /\ \E file \in todo :
        LET opened == Utils_open_file(fs, file, TRUE)
            cc == opened.val
            dec == Security_decrypt(password_hash, cc)
            saved == Utils_save_file(fs, dec.data, cc.filename)
            rest == todo \ {file}
        IN  IF opened.exc # {}
            THEN /\ \E exc \in opened.exc : Raise(exc, file)
                 /\ UNCHANGED <<fs, pc, todo, okFiles, lastDec>>
            ELSE /\ lastDec' = [n |-> lastDec.n + 1, file |-> file, cc |-> cc,
                                mp |-> password_hash, ok |-> dec.ok,
                                data |-> dec.data]
                 /\ IF ~dec.ok
                    THEN /\ Raise("ValueError", file)
                         /\ UNCHANGED <<fs, pc, todo, okFiles>>
                    ELSE IF saved.exc # {}
                    THEN /\ \E exc \in saved.exc : Raise(exc, file)
                         /\ UNCHANGED <<fs, pc, todo, okFiles>>
                    ELSE /\ fs' = saved.fs
                         /\ okFiles' = okFiles \cup {file}
                         /\ pc' = IF rest # {} THEN "loop"
                                  ELSE IF mode = 2 THEN "ret" ELSE "unarchive"
                         /\ todo' = IF rest = {} /\ mode = 4
                                    THEN files ELSE rest
                         /\ UNCHANGED <<status, err>>
    /\ UNCHANGED <<dirs, args, mode, files, password_hash, archives_location,
                   ri, rng, fsMode, dirsMode, prompts, encLog, removed>>

\* Cryptfile.encrypt_dir: one iteration of the loop that archives
\* self.directories; after the last, Cryptfile(files=archives_location)
Cryptfile_encrypt_dir_archive ==
    /\ status = "running"
    /\ pc = "archive"
    /\ \E directory \in todo :
        LET made == Utils_archive_dir(dirs, directory, args.compress)
            rest == todo \ {directory}
            locs == archives_location \cup {made.path}
        IN  IF made.exc # {}
            THEN /\ \E exc \in made.exc : Raise(exc, directory)
                 /\ UNCHANGED <<fs, pc, todo, files, archives_location>>
            ELSE /\ fs' = WriteFile(fs, made.path, made.content)
                 /\ archives_location' = locs
                 /\ todo' = rest
                 /\ pc' = IF rest = {} THEN "getpass" ELSE "archive"
                 /\ files' = IF rest = {} THEN locs ELSE files
                 /\ UNCHANGED <<status, err>>
    /\ UNCHANGED <<dirs, args, mode, password_hash, ri, rng, hist>>

\* Cryptfile.decrypt_dir: one iteration of the loop that unpacks
Cryptfile_decrypt_dir_unarchive ==
    /\ status = "running"
    /\ pc = "unarchive"
    /\ \E file \in todo :
        LET archive_file == SplitFirst(file, ".enc")
            un == Utils_unarchive_dir(fs, archive_file)
            rest == todo \ {file}
            locs == archives_location \cup {archive_file}
        IN  IF un.exc # {}
            THEN /\ \E exc \in un.exc : Raise(exc, file)
                 /\ UNCHANGED <<dirs, pc, todo, archives_location>>
            ELSE /\ dirs' = WriteFile(dirs, un.dir, un.tree)
                 /\ archives_location' = locs
                 /\ pc' = IF rest = {} THEN "rm_archives" ELSE "unarchive"
                 /\ todo' = IF rest = {} THEN locs ELSE rest
                 /\ UNCHANGED <<status, err>>
    /\ UNCHANGED <<fs, args, mode, files, password_hash, ri, rng, hist>>

\* encrypt_dir / decrypt_dir: one os.remove of the map over archives_location
Cryptfile_remove_archive ==
    /\ status = "running"
    /\ pc = "rm_archives"
    /\ \E archive_file \in todo :
        IF archive_file \notin DOMAIN fs
        THEN /\ Raise("FileNotFoundError", archive_file)
             /\ UNCHANGED <<fs, pc, todo>>
        ELSE /\ fs' = RemoveFile(fs, archive_file)
             /\ todo' = todo \ {archive_file}
             /\ pc' = IF todo' = {} THEN "ret" ELSE "rm_archives"
             /\ UNCHANGED <<status, err>>
    /\ UNCHANGED <<dirs, args, mode, files, password_hash, archives_location,
                   ri, rng, hist>>

\* process(): one call of the map that deletes the originals under -r, in
\* the order of the list: os.remove, and rmtree for the directories
process_remove ==
    /\ status = "running"
    /\ pc \in {"ret", "remove"}
    /\ args.remove
    /\ ri <= Len(ArgOf(mode))
    /\ LET file == ArgOf(mode)[ri]
       IN  IF mode = 3
           THEN IF file \notin DOMAIN dirs
                THEN /\ Raise("FileNotFoundError", file)
                     /\ UNCHANGED <<fs, dirs, pc, ri, removed>>
                ELSE /\ dirs' = RemoveFile(dirs, file)
                     /\ pc' = "remove"
                     /\ ri' = ri + 1
                     /\ removed' = removed \cup {file}
                     /\ UNCHANGED <<fs, status, err>>
           ELSE IF file \notin DOMAIN fs
                THEN /\ Raise("FileNotFoundError", file)
                     /\ UNCHANGED <<fs, dirs, pc, ri, removed>>
                ELSE /\ fs' = RemoveFile(fs, file)
                     /\ pc' = "remove"
                     /\ ri' = ri + 1
                     /\ removed' = removed \cup {file}
                     /\ UNCHANGED <<dirs, status, err>>
    /\ UNCHANGED <<args, mode, files, todo, password_hash, archives_location,
                   rng, fsMode, dirsMode, prompts, okFiles, encLog, lastDec>>

Next ==
    \/ process
    \/ Security_getpass
    \/ Cryptfile_encrypt_file
    \/ Cryptfile_decrypt_file
    \/ Cryptfile_encrypt_dir_archive
    \/ Cryptfile_decrypt_dir_unarchive
    \/ Cryptfile_remove_archive
    \/ process_remove

Spec == Init /\ [][Next]_vars

(***************************************************************************)
(* Properties.                                                             *)
(***************************************************************************)
\* what decides a decryption: every field of a container but its filename
Core(cc) == <<cc.ciphertext, cc.salt, cc.tag, cc.nonce>>

\* the Security.encrypt calls behind the containers of the initial disks
EarlierRuns ==
    {[mp |-> OldHash, cc |-> Earlier(d, NoFile), pt |-> d] :
        d \in {Bytes(1), Bytes(2), Archive("tar", 1), Archive("tar", 3)}}

\* every Security.encrypt call so far: hash, container, plaintext
Made ==
    EarlierRuns
    \cup {[mp |-> encLog[i].mp, cc |-> [encLog[i].cc EXCEPT !.filename = NoFile],
           pt |-> encLog[i].pt] : i \in DOMAIN encLog}

\* the last container handed to Security.decrypt is one Security.encrypt
\* made, under the hash it was made with
LastDecGenuine ==
    \E m \in Made : Core(m.cc) = Core(lastDec.cc) /\ m.mp = lastDec.mp

\* C1: round trip.  Whenever Security(H).decrypt is handed a container that
\* Security(H).encrypt made of plaintext P, whatever salt and nonce were
\* drawn, it verifies and returns exactly P; the same holds of the two
\* functions of obsfile/security.py.
C1_RoundTrip ==
    /\ lastDec.n > 0 =>
         \A m \in Made :
            Core(m.cc) = Core(lastDec.cc) /\ m.mp = lastDec.mp
                => lastDec.ok /\ lastDec.data = m.pt
    /\ \A f \in DOMAIN fs : \A pw \in Passwords :
         LET back == obs_decrypt(obs_encrypt(fs[f], SHA256Hex(pw), rng),
                                 SHA256Hex(pw), rng + 2)
         IN  back.ok /\ back.data = fs[f]

\* a container encrypted in this run has been decrypted, in this run, under
\* the same hash
C1_Witness ==
    /\ lastDec.n > 0
    /\ lastDec.ok
    /\ \E i \in DOMAIN encLog :
         /\ Core(encLog[i].cc) = Core(lastDec.cc)
         /\ encLog[i].mp = lastDec.mp
         /\ lastDec.data = encLog[i].pt

\* C2: decryption fails closed.  When decrypt_file hands Security.decrypt a
\* container that no encrypt call made under the hash entered (another
\* passphrase, or a ciphertext, tag, nonce or salt that differs), the step
\* raises the MAC failure for that file and leaves every file on disk as it
\* was.
C2_FailsClosed ==
    /\ [](lastDec.n > 0 /\ ~LastDecGenuine
            => /\ status = "crash"
               /\ err.exc = "ValueError"
               /\ err.file = lastDec.file)
    /\ [][lastDec'.n > lastDec.n /\ ~LastDecGenuine'
            => fs' = fs /\ dirs' = dirs]_vars

\* a container with a flipped field was handed to Security.decrypt under the
\* hash it was made with, and the run ended on the MAC failure
C2_Witness ==
    /\ lastDec.n > 0
    /\ lastDec.mp = OldHash
    /\ \E f \in RequiredFields : lastDec.cc[f].kind = "flip"
    /\ status = "crash"
    /\ err.exc = "ValueError"

\* a container made in this run was handed to Security.decrypt under another
\* hash, and the run ended on the MAC failure
C2_WrongPassphraseReached ==
    /\ lastDec.n > 0
    /\ \E i \in DOMAIN encLog :
         Core(encLog[i].cc) = Core(lastDec.cc) /\ encLog[i].mp # lastDec.mp
    /\ status = "crash"

\* C3: confirmation gate.  When the two passphrase entries of an encrypt
\* mode (files or directories) differ, the run ends with exit code 1 and the
\* disk is as it was when the mode started: no file created, changed or
\* deleted, no intermediate archive left.
C3_ConfirmationGate ==
    status = "exit1" /\ mode \in {1, 3} => fs = fsMode /\ dirs = dirsMode

\* the part of C3 that holds: the gate of the file mode
C3_FileModeGate ==
    status = "exit1" /\ mode = 1 => fs = fsMode /\ dirs = dirsMode

\* a file of the batch that encrypt_file / decrypt_file would process
\* without an exception, were it the only one
CouldSucceedAlone(file) ==
    IF mode \in {1, 3}
    THEN Utils_open_file(fs, file, FALSE).exc = {}
    ELSE /\ Utils_open_file(fs, file, TRUE).exc = {}
         /\ LET cc == Utils_open_file(fs, file, TRUE).val
            IN  /\ Security_decrypt(password_hash, cc).ok
                /\ cc.filename # NoFile

\* C4: a per-file failure does not abort the batch.  When the run is over
\* and a file of an encrypt_file / decrypt_file batch has failed, every file
\* of the batch that could succeed on its own has been processed.
C4_BatchContinues ==
    status = "crash" /\ pc = "loop"
        => \A file \in files : CouldSucceedAlone(file) => file \in okFiles

\* the part of C4 that holds: what was processed before the failure stays
C4_ProcessedStay ==
    status = "crash" /\ pc = "loop" /\ mode \in {1, 3}
        => \A file \in okFiles : Suffixed(file, ".enc") \in DOMAIN fs

\* C5: one passphrase entry per encrypt batch, one new salt per file.  In an
\* encrypt batch getpass is called once and every key is derived from its
\* hash; every encryption draws a salt that no container on disk holds and
\* no other encryption of the run got, also for the same plaintext under
\* the same passphrase.
C5_FreshSaltPerFile ==
    /\ mode \in {1, 3} /\ pc \in {"loop", "rm_archives", "ret", "remove"}
         => prompts = 1
    /\ \A i \in DOMAIN encLog :
         /\ encLog[i].fresh
         /\ encLog[i].mode = mode =>
              encLog[i].cc.ciphertext.key
                  = Security_kdf_scrypt(password_hash, encLog[i].cc.salt)
    /\ \A i, j \in DOMAIN encLog :
         i # j => encLog[i].cc.salt # encLog[j].cc.salt

\* one batch has encrypted two files of the same content under one hash
C5_Witness ==
    \E i, j \in DOMAIN encLog :
        /\ i # j
        /\ encLog[i].mode = encLog[j].mode
        /\ encLog[i].pt = encLog[j].pt
        /\ encLog[i].mp = encLog[j].mp
        /\ encLog[i].cc.salt # encLog[j].cc.salt

\* C6: output naming on decrypt.  A step of decrypt_file that recovers the
\* content of an artifact does not fail, and saves it as Utils._rename names
\* it: X for X.enc, <name>.cryptfile otherwise; no other file changes.
C6_OutputNaming ==
    [][lastDec'.n > lastDec.n /\ lastDec'.ok
         => /\ status' = "running"
            /\ fs' = WriteFile(fs, Utils_rename(lastDec'.file), lastDec'.data)
      ]_vars

\* what the code does instead: the name recorded in the container decides
C6_RecordedNameDecides ==
    [][lastDec'.n > lastDec.n /\ lastDec'.ok /\ status' = "running"
         => fs' = WriteFile(fs, lastDec'.cc.filename, lastDec'.data)
      ]_vars

\* the container persisted for an archive decrypts to content
HoldsContainerOf(artifact, content) ==
    /\ artifact \in DOMAIN fs
    /\ Utils_open_file(fs, artifact, TRUE).exc = {}
    /\ LET dec == Security_decrypt(password_hash,
                                   Utils_open_file(fs, artifact, TRUE).val)
       IN  dec.ok /\ dec.data = content

\* C7: directory encryption.  When encrypt_dir has returned, every
\* directory of the set has a container of its archive at <archive>.enc and
\* no intermediate archive is left; an archive is deleted only after its
\* container was persisted.
C7_DirectoryEncryption ==
    /\ mode = 3 /\ pc = "ret" =>
         /\ \A directory \in Range(args.encrypt_dir) :
              LET made == Utils_archive_dir(dirsMode, directory, args.compress)
              IN  HoldsContainerOf(Suffixed(made.path, ".enc"), made.content)
         /\ \A archive_file \in archives_location :
              archive_file \notin DOMAIN fs
    /\ mode = 3 =>
         \A archive_file \in archives_location :
            archive_file \notin DOMAIN fs => archive_file \in okFiles

\* the part of C7 that holds: the archives go, and only after their
\* containers were persisted
C7_ArchivesRemovedLast ==
    /\ mode = 3 /\ pc = "ret" =>
         \A archive_file \in archives_location : archive_file \notin DOMAIN fs
    /\ mode = 3 =>
         \A archive_file \in archives_location :
            archive_file \notin DOMAIN fs => archive_file \in okFiles

\* where decrypt_file saved the blob recovered from a container of the batch
RecoveredBlob(file) == CipherConfigFromDict(fsMode[file].obj).filename

\* C8: directory decryption.  When decrypt_dir has returned, the blob
\* recovered from every container of the batch has been unpacked and
\* deleted; when unpacking fails, the blob recovered from that container is
\* still on disk as the run ends.
C8_DirectoryDecryption ==
    /\ mode = 4 /\ pc = "ret" =>
         \A file \in files :
            /\ RecoveredBlob(file) \in archives_location
            /\ RecoveredBlob(file) \notin DOMAIN fs
    /\ mode = 4 /\ pc = "unarchive" /\ status = "crash" =>
         /\ RecoveredBlob(err.file) \in DOMAIN fs
         /\ fs[RecoveredBlob(err.file)] = lastDec.data \/ lastDec.file # err.file

\* the part of C8 that holds: a failed unpacking deletes no recovered blob
C8_BlobKeptOnFailure ==
    mode = 4 /\ pc = "unarchive" /\ status = "crash" =>
        \A file \in files : RecoveredBlob(file) \in DOMAIN fs

\* a .enc file cut short, or a record without one of the five fields
Corrupt(content) ==
    \/ content.kind = "truncated"
    \/ content.kind = "pickle" /\ ~(AllFields \subseteq DOMAIN content.obj)

\* C9: a truncated container is treated as corrupt.  Decrypting a file that
\* was cut short, or whose record lacks a field, ends in a malformed-
\* container or integrity error for that file: the run does not crash, and
\* no output file is written for it.
C9_TruncatedIsCorrupt ==
    mode \in {2, 4} =>
        /\ \A file \in files :
              file \in DOMAIN fsMode /\ Corrupt(fsMode[file])
                  => file \notin okFiles
        /\ err.exc # "" /\ err.file \in DOMAIN fs /\ Corrupt(fs[err.file])
              => /\ err.exc \in {"MalformedContainerError", "IntegrityError"}
                 /\ status # "crash"

\* the part of C9 that holds: no output file is written for such a file
C9_NoOutput ==
    /\ mode \in {2, 4} =>
         \A file \in files :
            file \in DOMAIN fsMode /\ Corrupt(fsMode[file])
                => file \notin okFiles
    /\ [][status' = "crash" => fs' = fs]_vars

\* C10: remove-originals safety.  Under -e with -r no original is deleted
\* before every file of the batch was encrypted, and when the encrypt block
\* is over (the remove loop is through, or the run has crashed) every
\* deleted original has at <file>.enc a container that decrypts, under the
\* hash of the batch, to the content that was read from it.
C10_RemoveOriginals ==
    mode = 1 /\ args.remove =>
        /\ removed # {} => okFiles = files
        /\ status = "crash" \/ (pc = "remove" /\ ri > Len(args.encrypt)) =>
             \A file \in removed :
                \E i \in DOMAIN encLog :
                    /\ encLog[i].file = file
                    /\ encLog[i].mode = 1
                    /\ HoldsContainerOf(Suffixed(file, ".enc"), encLog[i].pt)

\* the part of C10 that holds: nothing is deleted before the batch is through
C10_EncryptedBeforeRemoved ==
    mode = 1 /\ args.remove => (removed # {} => okFiles = files)

====
